---- MODULE Spec2Model ----
(***************************************************************************)
(* A model of the lexer of src/lexer.rs: the character source              *)
(* (VecLexerString), the tokenizer (Lexer::next_token, Lexer::eof) and the *)
(* two kinds of caller: an arbitrary caller of the public API, and the     *)
(* driving loop `while !lexer.eof() { match lexer.next_token() {..} }` of  *)
(* the test parse_operators_and_numbers.                                   *)
(*                                                                         *)
(* Bytes are their ASCII codes. A VecLexerString is a record               *)
(* [string, current_char, next_char]; string is a TLA+ sequence, so the    *)
(* byte the code reads as string[i] is string[i + 1] here.                 *)
(***************************************************************************)
EXTENDS Integers, Sequences, FiniteSets, TLC

VARIABLES string, current_char, next_char, ret, prev_ret, eofret, tokens, pc, calls

vars == <<string, current_char, next_char, ret, prev_ret, eofret, tokens, pc, calls>>

(***************************************************************************)
(* Bounds of the model.                                                    *)
(***************************************************************************)
\* Inputs of every length up to MaxLen over Alphabet are explored.
MaxLen == 4

\* An arbitrary API caller makes at most MaxCalls calls of next_token.
MaxCalls == 6

\* '1' '2' '+' '/' ' ' 'a' '@'
Alphabet == {49, 50, 43, 47, 32, 97, 64}

\* "124 + 238 +/34 -18" (the test's TEST_STRING)
TEST_STRING ==
    <<49, 50, 52, 32, 43, 32, 50, 51, 56, 32, 43, 47, 51, 52, 32, 45, 49, 56>>

\* "12abc+3"
AlphaExample == <<49, 50, 97, 98, 99, 43, 51>>

\* "(1*2)-3", "1\t-\n2 ", "Zz9" followed by NUL
OtherExamples ==
    { <<40, 49, 42, 50, 41, 45, 51>>,
      <<49, 9, 45, 10, 50, 32>>,
      <<90, 122, 57, 0>> }

Inputs ==
    UNION { [1..n -> Alphabet] : n \in 0..MaxLen }
        \cup {TEST_STRING, AlphaExample} \cup OtherExamples

(***************************************************************************)
(* Bytes: u8's classification methods and CheckableChar.                   *)
(***************************************************************************)
is_ascii_digit(c) == c \in 48..57

is_ascii_alphabetic(c) == c \in (65..90) \cup (97..122)

\* U+0020 SPACE, U+0009 TAB, U+000A LF, U+000C FF, U+000D CR
is_ascii_whitespace(c) == c \in {32, 9, 10, 12, 13}

\* b'+' b'-' b'*' b'/'
is_ascii_operator(c) == c = 43 \/ c = 45 \/ c = 42 \/ c = 47

\* The fn(&u8) -> bool passed to consume_char_type, by name.
char_type_holds(char_type, c) ==
    IF char_type = "is_ascii_digit" THEN is_ascii_digit(c)
    ELSE is_ascii_alphabetic(c)

(***************************************************************************)
(* Token, Option and Result values.                                        *)
(***************************************************************************)
Number(content) == [type |-> "Number", content |-> content]

Operator(content) == [type |-> "Operator", content |-> content]

\* Option<Token> as a sequence of at most one token.
None == <<>>

Some(token) == <<token>>

Ok(token) == [res |-> "Ok", token |-> token]

Err == [res |-> "Err", token |-> None]

\* No call of next_token has returned yet.
NotCalled == [res |-> "NotCalled", token |-> None]

(***************************************************************************)
(* VecLexerString.                                                         *)
(***************************************************************************)
get_next_char(self) ==
    IF self.next_char >= Len(self.string) THEN 0
    ELSE self.string[self.next_char + 1]

get_current_char(self) ==
    IF self.current_char >= Len(self.string) THEN 0
    ELSE self.string[self.current_char + 1]

\* shift_chars with `self.next_char += 1` forgotten.
shift_chars_current_only(self) ==
    [self EXCEPT !.current_char = @ + 1]

shift_chars(self) ==
    [self EXCEPT !.current_char = @ + 1, !.next_char = @ + 1]

\* The while loop of consume_char_type, from the state (self, content).
RECURSIVE consume_char_type_loop(_, _, _)
consume_char_type_loop(self, char_type, content) ==
    IF char_type_holds(char_type, get_current_char(self))
    THEN consume_char_type_loop(shift_chars(self), char_type,
                                Append(content, get_current_char(self)))
    ELSE [self |-> self, content |-> content]

\* consume_char_type with `if` for `while`: at most one byte is consumed.
consume_char_type_once(self, char_type) ==
    IF char_type_holds(char_type, get_current_char(self))
    THEN [self |-> shift_chars(self), content |-> <<get_current_char(self)>>]
    ELSE [self |-> self, content |-> <<>>]

consume_char_type(self, char_type) ==
    consume_char_type_loop(self, char_type, <<>>)

\* The while loop of skip_whitespace, from the state (self, skipped).
RECURSIVE skip_whitespace_loop(_, _)
skip_whitespace_loop(self, skipped) ==
    IF is_ascii_whitespace(get_current_char(self))
    THEN skip_whitespace_loop(shift_chars(self), TRUE)
    ELSE [self |-> self, skipped |-> skipped]

skip_whitespace(self) == skip_whitespace_loop(self, FALSE)

\* eof as the true end of the buffer.
eof_at_end(self) == self.current_char >= Len(self.string)

eof(self) == self.current_char + 1 >= Len(self.string)

(***************************************************************************)
(* Lexer.                                                                  *)
(***************************************************************************)
\* Lexer::new(str): the character source right after construction.
new(str) == [string |-> str, current_char |-> 0, next_char |-> 1]

\* next_token with the last branch skipping the byte instead of failing.
next_token_skips_unrecognized(self) ==
    LET s1 == skip_whitespace(self).self
        c == get_current_char(s1)
    IN  IF is_ascii_digit(c)
        THEN LET r == consume_char_type(s1, "is_ascii_digit")
             IN  [self |-> r.self, ret |-> Ok(Some(Number(<<>> \o r.content)))]
        ELSE IF is_ascii_alphabetic(c)
        THEN LET r == consume_char_type(s1, "is_ascii_alphabetic")
             IN  [self |-> r.self, ret |-> Ok(None)]
        ELSE IF is_ascii_operator(c)
        THEN [self |-> shift_chars(s1), ret |-> Ok(Some(Operator(<<c>>)))]
        ELSE [self |-> shift_chars(s1), ret |-> Ok(None)]

\* next_token with the operator branch's shift_chars() forgotten.
next_token_operator_not_shifted(self) ==
    LET s1 == skip_whitespace(self).self
        c == get_current_char(s1)
    IN  IF is_ascii_digit(c)
        THEN LET r == consume_char_type(s1, "is_ascii_digit")
             IN  [self |-> r.self, ret |-> Ok(Some(Number(<<>> \o r.content)))]
        ELSE IF is_ascii_alphabetic(c)
        THEN LET r == consume_char_type(s1, "is_ascii_alphabetic")
             IN  [self |-> r.self, ret |-> Ok(None)]
        ELSE IF is_ascii_operator(c)
        THEN [self |-> s1, ret |-> Ok(Some(Operator(<<c>>)))]
        ELSE [self |-> s1, ret |-> Err]

\* next_token with the failing branch consuming the offending byte.
next_token_err_consumes(self) ==
    LET s1 == skip_whitespace(self).self
        c == get_current_char(s1)
    IN  IF is_ascii_digit(c)
        THEN LET r == consume_char_type(s1, "is_ascii_digit")
             IN  [self |-> r.self, ret |-> Ok(Some(Number(<<>> \o r.content)))]
        ELSE IF is_ascii_alphabetic(c)
        THEN LET r == consume_char_type(s1, "is_ascii_alphabetic")
             IN  [self |-> r.self, ret |-> Ok(None)]
        ELSE IF is_ascii_operator(c)
        THEN [self |-> shift_chars(s1), ret |-> Ok(Some(Operator(<<c>>)))]
        ELSE [self |-> shift_chars(s1), ret |-> Err]

\* Lexer::next_token: the lexer after the call and the value returned.
next_token(self) ==
    LET s1 == skip_whitespace(self).self
        c == get_current_char(s1)
    IN  IF is_ascii_digit(c)
        THEN LET r == consume_char_type(s1, "is_ascii_digit")
             IN  [self |-> r.self, ret |-> Ok(Some(Number(<<>> \o r.content)))]
        ELSE IF is_ascii_alphabetic(c)
        THEN LET r == consume_char_type(s1, "is_ascii_alphabetic")
             IN  [self |-> r.self, ret |-> Ok(None)]
        ELSE IF is_ascii_operator(c)
        THEN [self |-> shift_chars(s1), ret |-> Ok(Some(Operator(<<c>>)))]
        ELSE [self |-> s1, ret |-> Err]

\* Lexer::eof delegates to the character source.
Lexer_eof(self) == eof(self)

(***************************************************************************)
(* The state machine.                                                      *)
(*   string, current_char, next_char   the VecLexerString                  *)
(*   ret, prev_ret   what the last call of next_token returned, and the    *)
(*                   one before it                                         *)
(*   eofret          what eof() returned, when it was the last call        *)
(*   tokens, pc      the driving loop's collected tokens and position:     *)
(*                   "test" (at the while condition), "body" (about to     *)
(*                   call next_token), "done" (loop left), "failed"        *)
(*                   (panicked on Err); "api" is the arbitrary caller      *)
(*   calls           the number of next_token calls made                   *)
(***************************************************************************)
Self ==
    [string |-> string, current_char |-> current_char, next_char |-> next_char]

Init ==
    /\ string \in Inputs
    /\ current_char = new(string).current_char
    /\ next_char = new(string).next_char
    /\ ret = NotCalled
    /\ prev_ret = NotCalled
    /\ eofret = None
    /\ tokens = <<>>
    /\ pc \in {"api", "test"}
    /\ calls = 0

\* An arbitrary caller calls lexer.next_token().
NextTokenCall ==
    /\ pc = "api"
    /\ calls < MaxCalls
    /\ LET r == next_token(Self)
       IN  /\ current_char' = r.self.current_char
           /\ next_char' = r.self.next_char
           /\ ret' = r.ret
    /\ prev_ret' = ret
    /\ eofret' = None
    /\ calls' = calls + 1
    /\ UNCHANGED <<string, tokens, pc>>

\* An arbitrary caller calls lexer.eof().
EofCall ==
    /\ pc = "api"
    /\ eofret' = Some(Lexer_eof(Self))
    /\ UNCHANGED <<string, current_char, next_char, ret, prev_ret, tokens, pc, calls>>

\* The driving loop evaluates its condition, !lexer.eof().
LoopTest ==
    /\ pc = "test"
    /\ eofret' = Some(Lexer_eof(Self))
    /\ pc' = IF Lexer_eof(Self) THEN "done" ELSE "body"
    /\ UNCHANGED <<string, current_char, next_char, ret, prev_ret, tokens, calls>>

\* The driving loop's body: match lexer.next_token().
LoopBody ==
    /\ pc = "body"
    /\ LET r == next_token(Self)
       IN  /\ current_char' = r.self.current_char
           /\ next_char' = r.self.next_char
           /\ ret' = r.ret
           /\ IF r.ret.res = "Err"
              THEN pc' = "failed" /\ tokens' = tokens
              ELSE IF r.ret.token = None
              THEN pc' = "test" /\ tokens' = tokens
              ELSE pc' = "test" /\ tokens' = Append(tokens, r.ret.token[1])
    /\ prev_ret' = ret
    /\ eofret' = None
    /\ calls' = calls + 1
    /\ UNCHANGED string

Next == NextTokenCall \/ EofCall \/ LoopTest \/ LoopBody

Spec == Init /\ [][Next]_vars

\* The driving loop is sequential code that runs to completion: neither its
\* condition nor its body waits for anything.
FairSpec == Spec /\ WF_vars(LoopTest) /\ WF_vars(LoopBody)

(***************************************************************************)
(* Vocabulary of the claims.                                               *)
(***************************************************************************)
\* The byte the code calls string[i] (0-based).
ByteAt(i) == string[i + 1]

InLoop == pc \in {"test", "body", "done", "failed"}

\* The input is made only of ASCII digits, operators and ASCII whitespace.
CleanInput ==
    \A i \in 1..Len(string) :
        \/ is_ascii_digit(string[i])
        \/ is_ascii_operator(string[i])
        \/ is_ascii_whitespace(string[i])

WhitespaceInput == \A i \in 1..Len(string) : is_ascii_whitespace(string[i])

\* A byte that starts no token, no alphabetic run and is not whitespace.
Unrecognized(c) ==
    /\ ~is_ascii_digit(c)
    /\ ~is_ascii_alphabetic(c)
    /\ ~is_ascii_operator(c)
    /\ ~is_ascii_whitespace(c)

\* The step is a call of next_token.
NextTokenStep == calls' = calls + 1

\* The tokens of s from index i (1-based) on: one Number per maximal digit
\* run, one Operator per operator byte, in input order.
RECURSIVE TokensFrom(_, _)
TokensFrom(s, i) ==
    IF i > Len(s) THEN <<>>
    ELSE IF is_ascii_digit(s[i])
    THEN LET j == CHOOSE j \in i..Len(s) :
                      /\ \A k \in i..j : is_ascii_digit(s[k])
                      /\ j = Len(s) \/ ~is_ascii_digit(s[j + 1])
         IN  <<Number(SubSeq(s, i, j))>> \o TokensFrom(s, j + 1)
    ELSE IF is_ascii_operator(s[i])
    THEN <<Operator(<<s[i]>>)>> \o TokensFrom(s, i + 1)
    ELSE TokensFrom(s, i + 1)

(***************************************************************************)
(* The claims.                                                             *)
(***************************************************************************)

\* C1: for every input made only of digits, operators and whitespace the
\* driving loop never fails, and when it is left the collected tokens are
\* exactly one Number per maximal digit run and one Operator per operator
\* byte of the whole input, in input order; TEST_STRING is one such input.
C1_WholeInputTokenized ==
    (InLoop /\ CleanInput) =>
        /\ pc # "failed"
        /\ pc = "done" => tokens = TokensFrom(string, 1)

\* C2: on an input of digits, operators and whitespace only, a Number token
\* returned by next_token is a non-empty all-digit run of the input that ends
\* at the cursor and has no digit right before or right after it, and an
\* Operator token is the single byte before the cursor, one of + - * /.
C2_TokensAreMaximalRuns ==
    (CleanInput /\ ret.res = "Ok" /\ ret.token # None) =>
        LET t == ret.token[1]
            n == Len(t.content)
        IN  /\ t.type \in {"Number", "Operator"}
            /\ t.type = "Number" =>
                /\ n >= 1
                /\ n <= current_char
                /\ \A k \in 1..n : t.content[k] \in 48..57
                /\ t.content = SubSeq(string, current_char - n + 1, current_char)
                /\ current_char - n >= 1 => string[current_char - n] \notin 48..57
                /\ current_char < Len(string) => ByteAt(current_char) \notin 48..57
            /\ t.type = "Operator" =>
                /\ n = 1
                /\ t.content[1] \in {43, 45, 42, 47}
                /\ current_char >= 1
                /\ t.content[1] = string[current_char]

C2_Witness ==
    /\ CleanInput
    /\ ret.res = "Ok"
    /\ ret.token # None
    /\ ret.token[1].type = "Number"
    /\ Len(ret.token[1].content) >= 2
    /\ current_char - Len(ret.token[1].content) >= 1
    /\ current_char < Len(string)

\* C3: on the empty input and on every input of whitespace only, the driving
\* loop collects no token and no next_token call returns Err.
C3_WhitespaceOnlyIsEmpty ==
    (InLoop /\ WhitespaceInput) =>
        /\ tokens = <<>>
        /\ ret.res # "Err"
        /\ pc # "failed"

\* C4: every Operator token the driving loop collects has exactly one byte,
\* and on "1+/2" the loop, once left, has collected exactly Number("1"),
\* Operator("+"), Operator("/"), Number("2").
C4_AdjacentOperators ==
    InLoop =>
        /\ \A i \in 1..Len(tokens) :
               tokens[i].type = "Operator" => Len(tokens[i].content) = 1
        /\ (string = <<49, 43, 47, 50>> /\ pc \in {"done", "failed"}) =>
               /\ pc = "done"
               /\ tokens = << Number(<<49>>), Operator(<<43>>),
                              Operator(<<47>>), Number(<<50>>) >>

\* C5: a next_token call that returned Ok(None) stopped right after a
\* maximal alphabetic run, and on "12abc+3" the driving loop, once left, has
\* collected exactly Number("12"), Operator("+"), Number("3").
C5_AlphabeticRunSkipped ==
    /\ (ret.res = "Ok" /\ ret.token = None) =>
           /\ current_char >= 1
           /\ is_ascii_alphabetic(string[current_char])
           /\ current_char < Len(string) => ~is_ascii_alphabetic(ByteAt(current_char))
    /\ (InLoop /\ string = AlphaExample /\ pc \in {"done", "failed"}) =>
           /\ pc = "done"
           /\ tokens = << Number(<<49, 50>>), Operator(<<43>>), Number(<<51>>) >>

\* C6: a next_token call whose first non-whitespace byte at or after the
\* cursor is outside {digit, alphabetic, + - * /} returns Err with no token
\* and leaves the cursor on that byte; and no such byte is ever behind the
\* cursor (none is absorbed into a token or skipped).
C6_UnrecognizedByteIsError ==
    [][ /\ NextTokenStep =>
             \A p \in current_char..(Len(string) - 1) :
                 ( /\ \A q \in current_char..(p - 1) : is_ascii_whitespace(ByteAt(q))
                   /\ Unrecognized(ByteAt(p)) )
                 => /\ ret'.res = "Err"
                    /\ ret'.token = None
                    /\ current_char' = p
        /\ \A i \in 1..current_char' : ~Unrecognized(string[i])
      ]_vars

C6_Witness ==
    /\ prev_ret.res = "Ok"
    /\ prev_ret.token # None
    /\ ret.res = "Err"
    /\ current_char < Len(string)
    /\ ByteAt(current_char) \in {64, 40, 41}

\* C7: next_char = current_char + 1 in every reachable state, the state
\* after construction included; no step decreases either cursor; a call of
\* eof() leaves both unchanged.
C7_CursorsInLockstep ==
    /\ [](next_char = current_char + 1)
    /\ [][ /\ current_char' >= current_char
           /\ next_char' >= next_char
           /\ eofret' # None => ( /\ current_char' = current_char
                                  /\ next_char' = next_char )
         ]_vars

C7_Witness ==
    /\ eofret # None
    /\ current_char >= 2
    /\ ret.res = "Ok"

\* C8: eof() returns true exactly when fewer than two bytes are unread, so
\* the driving loop enters its body only with at least two unread bytes and,
\* when it is left without error, at most one byte is behind no next_token
\* call.
C8_EofIsNearEnd ==
    /\ eofret # None => (eofret[1] <=> Len(string) - current_char < 2)
    /\ pc = "body" => Len(string) - current_char >= 2
    /\ pc = "done" => Len(string) - current_char <= 1

\* The loop was left with the last byte, an operator, never passed to
\* next_token.
C8_Witness ==
    /\ pc = "done"
    /\ calls >= 1
    /\ Len(string) - current_char = 1
    /\ is_ascii_operator(ByteAt(current_char))

\* C9: a next_token call made while eof() is false returns Err or strictly
\* increases current_char; current_char never exceeds the input length; the
\* driving loop makes at most length(input) calls of next_token and is
\* eventually left (done, or failed on Err).
C9_LoopProgress ==
    /\ [](current_char <= Len(string))
    /\ [](InLoop => calls <= Len(string))
    /\ (pc \in {"test", "body"}) ~> (pc \in {"done", "failed"})
    /\ [][ (NextTokenStep /\ current_char + 1 < Len(string)) =>
               (ret'.res = "Err" \/ current_char' > current_char) ]_vars

C9_Witness ==
    /\ pc = "done"
    /\ calls >= 3
    /\ calls = Len(string) - 1

\* C10: a next_token call that returns Err moves the cursor only over
\* whitespace and stops on the offending byte (or at the end) without
\* consuming it; after an Err every further next_token call returns Err and
\* leaves both cursors unchanged.
C10_ErrorIsSticky ==
    [][ NextTokenStep =>
          /\ ret'.res = "Err" =>
                /\ current_char' >= current_char
                /\ \A q \in current_char..(current_char' - 1) :
                       is_ascii_whitespace(ByteAt(q))
                /\ current_char' <= Len(string)
                /\ current_char' < Len(string) => Unrecognized(string[current_char' + 1])
          /\ ret.res = "Err" =>
                /\ ret'.res = "Err"
                /\ ret'.token = None
                /\ current_char' = current_char
                /\ next_char' = next_char
      ]_vars

\* Two calls in a row returned Err, the first after skipping whitespace.
C10_Witness ==
    /\ prev_ret.res = "Err"
    /\ ret.res = "Err"
    /\ current_char >= 1
    /\ current_char < Len(string)
    /\ is_ascii_whitespace(string[current_char])

====
